---- MODULE Spec2Model ----
(***************************************************************************)
(* Model of the word-autocomplete service: the Trie prefix index           *)
(* (lib/Trie), the in-memory rate limiter (lib/rateLimit) and the GET      *)
(* handler of app/api/wordlist/route.ts that composes them.                *)
(*                                                                         *)
(* Strings are sequences of one-character strings.  An optional value      *)
(* (a field that may be undefined, a Map lookup that may miss) is a        *)
(* sequence of length 0 or 1.                                              *)
(***************************************************************************)
EXTENDS Integers, Sequences, FiniteSets, TLC

VARIABLES
    root,           \* Trie.root: the tree of TrieNode objects
    history,        \* ghost: every word passed to insert so far, in call order
    answer,         \* the latest read of the index (search, contains, getSize) and its value
    requestCounts,  \* rateLimit.requestCounts: Map ip -> {count, resetTime}
    now,            \* the value Date.now() returns
    win,            \* ghost: per ip, the window it is in and the calls made in it
    last,           \* ghost: the latest checkRateLimit call
    ncalls,         \* ghost: total number of checkRateLimit calls
    extracted,      \* the latest call of getClientIP on its own: the header and the key
    recent,         \* ghost: per ip and age a, the calls of SpecRateLimit admitted at now - a
    cachedTrie,     \* route.ts cachedTrie: null, or the root of the Trie built
    pc,             \* per request handler: "idle", or "GET" (its call of GET is due)
    request,        \* per request handler: the request its GET is called with
    response,       \* the latest response returned by a GET, and to which request
    cleaned,        \* the latest cleaning of a file's lines on its own: the lines and the words
    log,            \* ghost: the statuses of the responses of SpecRequests, in order
    inputValue,     \* Autocomplete state: the text of the input
    suggestions,    \* Autocomplete state: the list shown in the dropdown
    isOpen,         \* Autocomplete state: the dropdown is open
    isLoading,      \* Autocomplete state: the spinner is shown
    selectedIndex,  \* Autocomplete state: the highlighted suggestion, or -1
    debounceTimer,  \* Autocomplete debounceTimer.current: null, or a timer id
    timers,         \* the browser's timers: those set and neither fired nor cleared
    inflight,       \* the fetch calls that have not returned yet
    fired,          \* ghost: every run of the debounce callback, in order
    burst,          \* ghost: the input changes since the callback last ran
    elapsed,        \* ghost: the ticks since the last input change (up to debounceMs)
    nchanges,       \* ghost: the number of input changes so far
    picked          \* ghost: the latest call of handleSelectSuggestion

vars == <<root, history, answer, requestCounts, now, win, last, ncalls, recent,
          extracted,
          cachedTrie, pc, request, response, log, cleaned,
          inputValue, suggestions, isOpen, isLoading, selectedIndex,
          debounceTimer, timers, inflight, fired, burst, elapsed, nchanges, picked>>
trieVars == <<root, history, answer>>
limiterVars == <<requestCounts, now, win, last, ncalls, recent, extracted>>
routeVars == <<cachedTrie, pc, request, response, log, cleaned>>
uiVars == <<inputValue, suggestions, isOpen, isLoading, selectedIndex,
            debounceTimer, timers, inflight, fired, burst, elapsed, nchanges,
            picked>>

(***************************************************************************)
(* Bounds of the model.                                                    *)
(***************************************************************************)
\* Total number of words passed to insert in one behaviour.
MaxInserts == 3
\* searchPrefix is asked for 0 .. MaxResults results.
MaxResults == 3
\* The clock runs from 0 to MaxNow.
MaxNow == 6
\* Total number of checkRateLimit calls in one behaviour.
MaxCalls == 7
\* Total number of requests received in one behaviour.
MaxRequests == 4

\* rateLimit.ts: const RATE_LIMIT_WINDOW_MS = 60000 and
\* const MAX_REQUESTS_PER_WINDOW = 100, scaled down: the window is
\* RATE_LIMIT_WINDOW_MS clock ticks long and admits MAX_REQUESTS_PER_WINDOW
\* requests.
RATE_LIMIT_WINDOW_MS == 2
MAX_REQUESTS_PER_WINDOW == 3

\* The ghost recent remembers the instants now - Horizon .. now.
Horizon == RATE_LIMIT_WINDOW_MS + 1

\* A line of a file given to the cleaning of getTrie on its own has at most
\* MaxLineLen characters.
MaxLineLen == 3

\* An x-forwarded-for header given to getClientIP on its own has at most
\* MaxHeaderLen characters.
MaxHeaderLen == 4

\* Autocomplete: the debounceMs prop (default 500), in clock ticks.
debounceMs == 2
\* Autocomplete: the minChars prop, at its default.
minChars == 2
\* Total number of changes of the input in one behaviour.
MaxChanges == 3

\* The request handlers that may be in flight at once.
Handlers == {"h1", "h2"}

\* The x-forwarded-for header of a request: absent, or "1, 2".
Headers == { <<>>, <<<<"1", ",", " ", "2">>>> }

\* The q parameter of a request: absent, "", " ", "a", "Ab" (which two
\* words of the file start with) and "bb" (which none starts with).
QueryParams ==
    { <<>>, <<<<>>>>, <<<<" ">>>>, <<<<"a">>>>, <<<<"A", "b">>>>, <<<<"b", "b">>>> }

\* The lines of data/wordlist.txt.
FileLines ==
    << <<"a", "b">>, <<" ", "A", "b", "a", " ">>, <<>>, <<"b", ".">>, <<",">>,
       <<" ">>, <<"a", ".", "b", ",">>, <<"a">> >>

\* The words inserted: the empty word, casings of one word, proper prefixes,
\* siblings below one node and a deeper word.
Words ==
    { <<>>, <<"a">>, <<"A">>, <<"b">>, <<"a", "b">>, <<"A", "b">>, <<"A", "B">>,
      <<"a", "a">>, <<"b", "a">>, <<"a", "b", "a">> }

\* The arrays given to buildFromArray: empty, a duplicated word, several words.
Arrays ==
    { <<>>, <<<<"a", "b">>, <<"a", "b">>, <<"a", "b">>>>,
      <<<<"b", "a">>, <<"A", "b">>, <<"a", "b", "a">>>>, <<<<"A">>, <<>>>> }

\* The strings asked for: every word, and strings that are no word.
Queries == Words \cup { <<"B">>, <<"a", "B">>, <<"b", "b">>, <<"A", "B", "A">> }

(***************************************************************************)
(* String.prototype.toLowerCase                                            *)
(***************************************************************************)
toLowerCaseChar(c) ==
    CASE c = "A" -> "a"
      [] c = "B" -> "b"
      [] OTHER -> c

toLowerCase(s) == [i \in 1..Len(s) |-> toLowerCaseChar(s[i])]

\* String.prototype.trim, with the space as the whitespace character.
RECURSIVE trimStart(_), trimEnd(_)
trimStart(s) == IF s # <<>> /\ Head(s) = " " THEN trimStart(Tail(s)) ELSE s
trimEnd(s) ==
    IF s # <<>> /\ s[Len(s)] = " " THEN trimEnd(SubSeq(s, 1, Len(s) - 1)) ELSE s
trim(s) == trimEnd(trimStart(s))

(***************************************************************************)
(* TrieNode and its children Map.  A JavaScript Map iterates in insertion  *)
(* order, so children is the sequence of its entries in that order.        *)
(***************************************************************************)
NewNode == [children |-> <<>>, isEndOfWord |-> FALSE, word |-> <<>>]

\* Map.has
MapHas(children, char) == \E i \in 1..Len(children) : children[i].key = char

\* The position of the entry of char (Map keys are unique).
MapIndex(children, char) == CHOOSE i \in 1..Len(children) : children[i].key = char

\* Map.get, for a key that is present
MapGet(children, char) == children[MapIndex(children, char)].node

(***************************************************************************)
(* rateLimit.getClientIP                                                   *)
(***************************************************************************)
\* forwarded.split(",")[0]
RECURSIVE splitFirst(_)
splitFirst(s) ==
    IF s = <<>> \/ Head(s) = "," THEN <<>> ELSE <<Head(s)>> \o splitFirst(Tail(s))

unknown == <<"u", "n", "k", "n", "o", "w", "n">>

\* Mutant of getClientIP: the whole header is the key.
getClientIPWholeHeader(forwarded) ==
    IF forwarded # <<>> /\ forwarded[1] # <<>> THEN forwarded[1] ELSE unknown

\* getClientIP for the value headers.get("x-forwarded-for") returns: the
\* empty string is falsy, as is null.
getClientIP(forwarded) ==
    IF forwarded # <<>> /\ forwarded[1] # <<>>
    THEN trim(splitFirst(forwarded[1]))
    ELSE unknown

\* The client keys of the requests.
IPs == {getClientIP(h) : h \in Headers}

(***************************************************************************)
(* Construction: an empty Trie (the unit under SpecTrie), an empty         *)
(* requestCounts Map, no cached Trie, no request in flight.                *)
(***************************************************************************)
NoRequest == [forwarded |-> <<>>, q |-> <<>>]

Init ==
    /\ root = NewNode
    /\ history = <<>>
    /\ answer = <<>>
    /\ requestCounts = [ip \in IPs |-> <<>>]
    /\ now = 0
    /\ win = [ip \in IPs |-> <<>>]
    /\ last = <<>>
    /\ ncalls = 0
    /\ recent = [ip \in IPs |-> [a \in 0 .. Horizon |-> 0]]
    /\ extracted = <<>>
    /\ cachedTrie = <<>>
    /\ pc = [h \in Handlers |-> "idle"]
    /\ request = [h \in Handlers |-> NoRequest]
    /\ response = <<>>
    /\ log = <<>>
    /\ cleaned = <<>>
    /\ inputValue = <<>>
    /\ suggestions = <<>>
    /\ isOpen = FALSE
    /\ isLoading = FALSE
    /\ selectedIndex = -1
    /\ debounceTimer = <<>>
    /\ timers = {}
    /\ inflight = {}
    /\ fired = <<>>
    /\ burst = <<>>
    /\ elapsed = debounceMs
    /\ nchanges = 0
    /\ picked = <<>>

(***************************************************************************)
(* Trie.insert                                                             *)
(***************************************************************************)
\* Mutant of MarkEnd: the lowercase key is stored instead of the word given.
MarkEndLowercased(node, word) ==
    [node EXCEPT !.isEndOfWord = TRUE, !.word = <<toLowerCase(word)>>]

\* Mutant of MarkEnd: the node is flagged and the word is not stored.
MarkEndFlagOnly(node, word) == [node EXCEPT !.isEndOfWord = TRUE]

\* The unconditional assignment of the terminal node's fields.
MarkEnd(node, word) == [node EXCEPT !.isEndOfWord = TRUE, !.word = <<word>>]

\* The descent of insert from `node` along the rest `lower` of the lowercase
\* word, creating the missing children, and the marking of the last node.
RECURSIVE InsertAt(_, _, _)

\* Mutant of InsertAt: a new child is put before its siblings.
InsertAtPrepend(node, lower, word) ==
    IF lower = <<>>
    THEN MarkEnd(node, word)
    ELSE LET char == Head(lower)
             kids == IF MapHas(node.children, char)
                     THEN node.children
                     ELSE <<[key |-> char, node |-> NewNode]>> \o node.children
             i == MapIndex(kids, char)
         IN  [node EXCEPT !.children =
                 [kids EXCEPT ![i].node = InsertAt(kids[i].node, Tail(lower), word)]]

InsertAt(node, lower, word) ==
    IF lower = <<>>
    THEN MarkEnd(node, word)
    ELSE LET char == Head(lower)
             kids == IF MapHas(node.children, char)
                     THEN node.children
                     ELSE Append(node.children, [key |-> char, node |-> NewNode])
             i == MapIndex(kids, char)
         IN  [node EXCEPT !.children =
                 [kids EXCEPT ![i].node = InsertAt(kids[i].node, Tail(lower), word)]]

\* Mutant of insert: the empty word is not tested for.
insertNoEmptyTest(t, word) == InsertAt(t, toLowerCase(word), word)

\* insert(word): the root after the call.
insert(t, word) ==
    IF word = <<>> THEN t ELSE InsertAt(t, toLowerCase(word), word)

\* Trie.buildFromArray: insert of each word in order.
RECURSIVE buildFromArray(_, _)
buildFromArray(t, words) ==
    IF words = <<>> THEN t
    ELSE buildFromArray(insert(t, Head(words)), Tail(words))

(***************************************************************************)
(* Trie.search and Trie._dfs                                               *)
(***************************************************************************)
\* The loop that follows the lowercase string from a node: the node reached,
\* or nothing when a character has no child.
RECURSIVE Descend(_, _)
Descend(node, lower) ==
    IF lower = <<>> THEN <<node>>
    ELSE IF ~MapHas(node.children, Head(lower)) THEN <<>>
    ELSE Descend(MapGet(node.children, Head(lower)), Tail(lower))

RECURSIVE _dfs(_, _, _), dfsChildren(_, _, _, _)

\* Mutant of _dfs: a word is collected at leaf nodes only.
dfsLeavesOnly(node, results, maxResults) ==
    IF Len(results) >= maxResults THEN results
    ELSE LET pushed == IF node.isEndOfWord /\ node.word # <<>> /\ node.children = <<>>
                       THEN Append(results, node.word[1])
                       ELSE results
         IN  dfsChildren(node.children, 1, pushed, maxResults)

\* Mutant of _dfs: the limit is not tested on entry.
dfsNoEntryTest(node, results, maxResults) ==
    LET pushed == IF node.isEndOfWord /\ node.word # <<>>
                  THEN Append(results, node.word[1])
                  ELSE results
    IN  dfsChildren(node.children, 1, pushed, maxResults)

\* Mutant of _dfs: the word of a node is collected after those of its children.
dfsPostOrder(node, results, maxResults) ==
    IF Len(results) >= maxResults THEN results
    ELSE LET r == dfsChildren(node.children, 1, results, maxResults)
         IN  IF node.isEndOfWord /\ node.word # <<>> /\ Len(r) < maxResults
             THEN Append(r, node.word[1])
             ELSE r

\* _dfs: the results array after the call.
_dfs(node, results, maxResults) ==
    IF Len(results) >= maxResults THEN results
    ELSE LET pushed == IF node.isEndOfWord /\ node.word # <<>>
                       THEN Append(results, node.word[1])
                       ELSE results
         IN  dfsChildren(node.children, 1, pushed, maxResults)

\* The for loop of _dfs over children.values(), from the i-th child on.
dfsChildren(children, i, results, maxResults) ==
    IF i > Len(children) THEN results
    ELSE LET r == _dfs(children[i].node, results, maxResults)
         IN  IF Len(r) >= maxResults THEN r
             ELSE dfsChildren(children, i + 1, r, maxResults)

\* Mutant of search: the word of the prefix node is collected by search and
\* again by _dfs.
searchPrefixTwice(t, prefix, maxResults) ==
    IF prefix = <<>> THEN <<>>
    ELSE LET reached == Descend(t, toLowerCase(prefix))
         IN  IF reached = <<>> THEN <<>>
             ELSE _dfs(reached[1],
                       IF reached[1].isEndOfWord /\ reached[1].word # <<>>
                       THEN <<reached[1].word[1]>> ELSE <<>>,
                       maxResults)

\* Mutant of search: everything is collected and the last maxResults
\* elements are returned.
searchTruncateTail(t, prefix, maxResults) ==
    IF prefix = <<>> THEN <<>>
    ELSE LET reached == Descend(t, toLowerCase(prefix))
         IN  IF reached = <<>> THEN <<>>
             ELSE LET all == _dfs(reached[1], <<>>, MaxInserts + 1)
                  IN  IF Len(all) <= maxResults THEN all
                      ELSE SubSeq(all, Len(all) - maxResults + 1, Len(all))

\* Mutant of search: the empty prefix is not tested for.
searchNoEmptyTest(t, prefix, maxResults) ==
    LET reached == Descend(t, toLowerCase(prefix))
    IN  IF reached = <<>> THEN <<>>
        ELSE _dfs(reached[1], <<>>, maxResults)

\* Mutant of search: the prefix is not lowercased before the descent.
searchCaseSensitive(t, prefix, maxResults) ==
    IF prefix = <<>> THEN <<>>
    ELSE LET reached == Descend(t, prefix)
         IN  IF reached = <<>> THEN <<>>
             ELSE _dfs(reached[1], <<>>, maxResults)

\* search(prefix, maxResults): the array returned.
search(t, prefix, maxResults) ==
    IF prefix = <<>> THEN <<>>
    ELSE LET reached == Descend(t, toLowerCase(prefix))
         IN  IF reached = <<>> THEN <<>>
             ELSE _dfs(reached[1], <<>>, maxResults)

(***************************************************************************)
(* Trie.contains                                                           *)
(***************************************************************************)
\* Mutant of contains: the word is not lowercased before the descent.
containsCaseSensitive(t, word) ==
    IF word = <<>> THEN FALSE
    ELSE LET reached == Descend(t, word)
         IN  IF reached = <<>> THEN FALSE ELSE reached[1].isEndOfWord

\* Mutant of contains: a path that exists counts as a word.
containsPath(t, word) ==
    IF word = <<>> THEN FALSE
    ELSE Descend(t, toLowerCase(word)) # <<>>

contains(t, word) ==
    IF word = <<>> THEN FALSE
    ELSE LET reached == Descend(t, toLowerCase(word))
         IN  IF reached = <<>> THEN FALSE ELSE reached[1].isEndOfWord

(***************************************************************************)
(* Trie.getSize and Trie._countWords                                       *)
(***************************************************************************)
RECURSIVE _countWords(_, _), countChildren(_, _, _)

\* _countWords(node, count): the number returned.
_countWords(node, count) ==
    countChildren(node.children, 1, IF node.isEndOfWord THEN count + 1 ELSE count)

\* The for loop of _countWords: count = this._countWords(child, count).
countChildren(children, i, count) ==
    IF i > Len(children) THEN count
    ELSE countChildren(children, i + 1, _countWords(children[i].node, count))

\* getSize(): count is a number, passed to _countWords by value, and the
\* number _countWords returns is dropped; the local count is returned.
getSize(t) ==
    LET count == 0
        dropped == _countWords(t, count)
    IN  count

(***************************************************************************)
(* The tree the read operations leave behind: search, contains, getSize    *)
(* and their helpers assign to no node (results and count are locals).     *)
(***************************************************************************)
\* The descent loop of insert without the marking: missing children are
\* created.
RECURSIVE CreatePath(_, _)
CreatePath(node, lower) ==
    IF lower = <<>> THEN node
    ELSE LET char == Head(lower)
             kids == IF MapHas(node.children, char)
                     THEN node.children
                     ELSE Append(node.children, [key |-> char, node |-> NewNode])
             i == MapIndex(kids, char)
         IN  [node EXCEPT !.children =
                 [kids EXCEPT ![i].node = CreatePath(kids[i].node, Tail(lower))]]

\* Mutant of searchRoot: the navigation loop creates the children it misses.
searchRootCreating(t, prefix, maxResults) == CreatePath(t, toLowerCase(prefix))

\* this.root after search(prefix, maxResults)
searchRoot(t, prefix, maxResults) == t

\* this.root after contains(word)
containsRoot(t, word) == t

\* this.root after getSize()
getSizeRoot(t) == t

(***************************************************************************)
(* The index: construction and the two operations that change it.          *)
(***************************************************************************)

Insert(word) ==
    /\ Len(history) < MaxInserts
    /\ root' = insert(root, word)
    /\ history' = Append(history, word)
    /\ UNCHANGED answer
    /\ UNCHANGED <<limiterVars, routeVars, uiVars>>

BuildFromArray(words) ==
    /\ Len(history) + Len(words) <= MaxInserts
    /\ root' = buildFromArray(root, words)
    /\ history' = history \o words
    /\ UNCHANGED answer
    /\ UNCHANGED <<limiterVars, routeVars, uiVars>>

NextTrie ==
    \/ \E word \in Words : Insert(word)
    \/ \E words \in Arrays : BuildFromArray(words)

SpecTrie == Init /\ [][NextTrie]_vars

(***************************************************************************)
(* Readers of the index.  The methods of Trie are synchronous, so each     *)
(* read is one step, and concurrent readers are reads in any order.        *)
(***************************************************************************)
Search(prefix, maxResults) ==
    /\ root' = searchRoot(root, prefix, maxResults)
    /\ answer' = <<[op |-> "search", arg |-> prefix, max |-> maxResults,
                   result |-> search(root, prefix, maxResults)]>>
    /\ UNCHANGED history
    /\ UNCHANGED <<limiterVars, routeVars, uiVars>>

Contains(word) ==
    /\ root' = containsRoot(root, word)
    /\ answer' = <<[op |-> "contains", arg |-> word, max |-> 0,
                   result |-> contains(root, word)]>>
    /\ UNCHANGED history
    /\ UNCHANGED <<limiterVars, routeVars, uiVars>>

GetSize ==
    /\ root' = getSizeRoot(root)
    /\ answer' = <<[op |-> "getSize", arg |-> <<>>, max |-> 0,
                   result |-> getSize(root)]>>
    /\ UNCHANGED history
    /\ UNCHANGED <<limiterVars, routeVars, uiVars>>

\* The index is built from arrays and read in any order.
NextReaders ==
    \/ \E words \in Arrays : BuildFromArray(words)
    \/ \E prefix \in Queries : \E maxResults \in 0..MaxResults :
           Search(prefix, maxResults)
    \/ \E word \in Queries : Contains(word)
    \/ GetSize

SpecReaders == Init /\ [][NextReaders]_vars

\* The values of an x-forwarded-for header: strings of digits, commas and
\* spaces, the empty string among them.
HeaderChars == {"1", ",", " "}
HeaderValues == UNION {[1..n -> HeaderChars] : n \in 0..MaxHeaderLen}

\* getClientIP(request) for a request without the header (<<>>) or with the
\* header value forwarded[1].
GetClientIP(forwarded) ==
    /\ extracted' = <<[forwarded |-> forwarded, ip |-> getClientIP(forwarded)]>>
    /\ UNCHANGED <<requestCounts, now, win, last, ncalls, recent>>
    /\ UNCHANGED <<trieVars, routeVars, uiVars>>

NextClientIP ==
    \E forwarded \in {<<>>} \cup {<<v>> : v \in HeaderValues} : GetClientIP(forwarded)

SpecClientIP == Init /\ [][NextClientIP]_vars

(***************************************************************************)
(* rateLimit: requestCounts and checkRateLimit.  requestCounts[ip] is the  *)
(* record Map.get returns: none, or one {count, resetTime}.                *)
(***************************************************************************)
\* Mutant of requestCountsSet: one record shared by every key.
requestCountsSetShared(counts, ip, record) == [k \in DOMAIN counts |-> <<record>>]

\* requestCounts.set(ip, record)
requestCountsSet(counts, ip, record) == [counts EXCEPT ![ip] = <<record>>]

\* Mutant of WindowExpired: the window ends one tick early (>= for >).
WindowExpiredEarly(record, t) == t >= record.resetTime

\* now > record.resetTime
WindowExpired(record, t) == t > record.resetTime

\* Mutant of NewRecord: now is left out of the window's end.
NewRecordStale(t) == [count |-> 1, resetTime |-> RATE_LIMIT_WINDOW_MS]

\* The record of a new window.
NewRecord(t) == [count |-> 1, resetTime |-> t + RATE_LIMIT_WINDOW_MS]

\* Mutant of checkRateLimit: the count is incremented on a copy of the record,
\* so the increment is lost.
checkRateLimitLostUpdate(counts, ip, t) ==
    LET record == counts[ip]
    IN  IF record = <<>> \/ t > record[1].resetTime
        THEN [counts |-> [counts EXCEPT ![ip] =
                             <<[count |-> 1, resetTime |-> t + RATE_LIMIT_WINDOW_MS]>>],
              result |-> TRUE]
        ELSE IF record[1].count >= MAX_REQUESTS_PER_WINDOW
        THEN [counts |-> counts, result |-> FALSE]
        ELSE [counts |-> counts, result |-> TRUE]

\* Mutant of LimitReached: one request too many passes (> for >=).
LimitReachedLate(record) == record.count > MAX_REQUESTS_PER_WINDOW

\* record.count >= MAX_REQUESTS_PER_WINDOW
LimitReached(record) == record.count >= MAX_REQUESTS_PER_WINDOW

\* Mutant of checkRateLimit: a rejected call starts the window's time anew.
checkRateLimitExtending(counts, ip, t) ==
    LET record == counts[ip]
    IN  IF record = <<>> \/ t > record[1].resetTime
        THEN [counts |-> [counts EXCEPT ![ip] =
                             <<[count |-> 1, resetTime |-> t + RATE_LIMIT_WINDOW_MS]>>],
              result |-> TRUE]
        ELSE IF record[1].count >= MAX_REQUESTS_PER_WINDOW
        THEN [counts |-> [counts EXCEPT ![ip] =
                             <<[record[1] EXCEPT !.resetTime = t + RATE_LIMIT_WINDOW_MS]>>],
              result |-> FALSE]
        ELSE [counts |-> [counts EXCEPT ![ip] = <<[record[1] EXCEPT !.count = @ + 1]>>],
              result |-> TRUE]

\* checkRateLimit(ip) called when Date.now() is t: the Map after the call
\* and the value returned.
checkRateLimit(counts, ip, t) ==
    LET record == counts[ip]
    IN  IF record = <<>> \/ WindowExpired(record[1], t)
        THEN [counts |-> requestCountsSet(counts, ip, NewRecord(t)), result |-> TRUE]
        ELSE IF LimitReached(record[1])
        THEN [counts |-> counts, result |-> FALSE]
        ELSE [counts |-> requestCountsSet(counts, ip,
                             [record[1] EXCEPT !.count = @ + 1]),
              result |-> TRUE]

\* One call of checkRateLimit(ip) at the current time, and what the ghosts
\* note of it.  The ghost window of ip starts with the first call after the
\* previous window's end and lasts RATE_LIMIT_WINDOW_MS, its end included.
Admit(ip) ==
    LET out == checkRateLimit(requestCounts, ip, now)
        w == win[ip]
        inc == IF out.result THEN 1 ELSE 0
        w2 == IF w = <<>> \/ now > w[1].windowEnd
              THEN [windowEnd |-> now + RATE_LIMIT_WINDOW_MS, calls |-> 1, admitted |-> inc]
              ELSE [w[1] EXCEPT !.calls = @ + 1, !.admitted = @ + inc]
    IN  /\ requestCounts' = out.counts
        /\ win' = [win EXCEPT ![ip] = <<w2>>]
        /\ last' = <<[ip |-> ip, at |-> now, before |-> requestCounts[ip],
                      winBefore |-> w, result |-> out.result]>>
        /\ ncalls' = ncalls + 1

\* A caller invokes checkRateLimit(ip).
CheckRateLimit(ip) ==
    /\ ncalls < MaxCalls
    /\ Admit(ip)
    /\ recent' = [recent EXCEPT ![ip][0] =
                     @ + (IF checkRateLimit(requestCounts, ip, now).result THEN 1 ELSE 0)]
    /\ UNCHANGED <<now, extracted>>
    /\ UNCHANGED <<trieVars, routeVars, uiVars>>

\* Mutant of Tick: the records whose window has ended are removed as time
\* passes.
TickPurging(d) ==
    /\ now + d <= MaxNow
    /\ now' = now + d
    /\ recent' = [ip \in DOMAIN recent |->
                     [a \in 0 .. Horizon |-> IF a >= d THEN recent[ip][a - d] ELSE 0]]
    /\ requestCounts' = [ip \in DOMAIN requestCounts |->
                            IF requestCounts[ip] # <<>> /\ now + d > requestCounts[ip][1].resetTime
                            THEN <<>> ELSE requestCounts[ip]]
    /\ UNCHANGED <<win, last, ncalls, extracted>>
    /\ UNCHANGED <<trieVars, routeVars, uiVars>>

\* Time passes: Date.now() is d later.
Tick(d) ==
    /\ now + d <= MaxNow
    /\ now' = now + d
    /\ recent' = [ip \in DOMAIN recent |->
                     [a \in 0 .. Horizon |-> IF a >= d THEN recent[ip][a - d] ELSE 0]]
    /\ UNCHANGED <<requestCounts, win, last, ncalls, extracted>>
    /\ UNCHANGED <<trieVars, routeVars, uiVars>>

\* The limiter called at every instant of the clock.
NextRateLimit ==
    \/ \E ip \in IPs : CheckRateLimit(ip)
    \/ Tick(1)

SpecRateLimit == Init /\ [][NextRateLimit]_vars

(***************************************************************************)
(* C7. Per-window limit: in one window of a key (from the call that        *)
(* created the record up to and including its end) exactly the first       *)
(* MAX_REQUESTS_PER_WINDOW calls return true and every further call        *)
(* returns false.                                                          *)
(***************************************************************************)
C7_PerWindowLimit ==
    last # <<>> =>
        LET w == win[last[1].ip][1]
        IN  /\ last[1].result = (w.calls <= MAX_REQUESTS_PER_WINDOW)
            /\ last[1].at <= w.windowEnd

\* A call made exactly at the window's end, after the limit was used up, was
\* rejected.
C7_Witness ==
    /\ last # <<>>
    /\ ~last[1].result
    /\ last[1].at = win[last[1].ip][1].windowEnd
    /\ win[last[1].ip][1].calls > MAX_REQUESTS_PER_WINDOW
    /\ win[last[1].ip][1].admitted = MAX_REQUESTS_PER_WINDOW

(***************************************************************************)
(* C8. Window reset: a call for a key with no record, or made strictly     *)
(* after the stored window end, returns true and leaves the record         *)
(* {count: 1, resetTime: now + RATE_LIMIT_WINDOW_MS}.                      *)
(***************************************************************************)
C8_WindowReset ==
    last # <<>> =>
        LET c == last[1]
        IN  (c.before = <<>> \/ c.at > c.before[1].resetTime) =>
                /\ c.result
                /\ requestCounts[c.ip] =
                       <<[count |-> 1, resetTime |-> c.at + RATE_LIMIT_WINDOW_MS]>>

\* The key had used up its limit and had been rejected in the window before.
C8_Witness ==
    /\ last # <<>>
    /\ last[1].before # <<>>
    /\ last[1].at > last[1].before[1].resetTime
    /\ last[1].before[1].count = MAX_REQUESTS_PER_WINDOW
    /\ last[1].winBefore[1].calls > last[1].winBefore[1].admitted
    /\ last[1].result

(***************************************************************************)
(* C9. Key independence: a call for key A leaves the record of every other *)
(* key B as it was, and with it the outcome of a call for B at any time.   *)
(***************************************************************************)
C9_KeyIndependence ==
    [][ncalls' # ncalls =>
          \A b \in IPs \ {last'[1].ip} :
              /\ requestCounts'[b] = requestCounts[b]
              /\ \A t \in 0..MaxNow :
                     checkRateLimit(requestCounts', b, t).result
                         = checkRateLimit(requestCounts, b, t).result]_vars

\* Key A is used up and was just rejected while key B is still admitted.
C9_Witness ==
    /\ last # <<>>
    /\ ~last[1].result
    /\ \E b \in IPs \ {last[1].ip} :
           /\ requestCounts[b] # <<>>
           /\ now <= requestCounts[b][1].resetTime
           /\ checkRateLimit(requestCounts, b, now).result

\* The number of calls of ip admitted at the instants now - len .. now, a
\* time span of len ticks.
RECURSIVE AdmittedWithin(_, _)
AdmittedWithin(ip, len) ==
    IF len < 0 THEN 0 ELSE recent[ip][len] + AdmittedWithin(ip, len - 1)

(***************************************************************************)
(* C11. Boundary burst, as the limiter allows it: within a time span       *)
(* shorter than RATE_LIMIT_WINDOW_MS one key gets at most                  *)
(* 2 * MAX_REQUESTS_PER_WINDOW - 1 requests admitted, and that many are    *)
(* reached by MAX - 1 requests at a window's last instant and MAX more at  *)
(* the next instant.  The call that opens a window is admitted a full      *)
(* window before its end, so all 2 * MAX admissions of two windows take    *)
(* more than RATE_LIMIT_WINDOW_MS.                                         *)
(***************************************************************************)
C11_BoundaryBurst ==
    \A ip \in IPs :
        AdmittedWithin(ip, RATE_LIMIT_WINDOW_MS - 1) <= 2 * MAX_REQUESTS_PER_WINDOW - 1

\* The burst: one admission opens a window, MAX - 1 follow at its last
\* instant and MAX at the instant after.
C11_Witness ==
    \E ip \in IPs :
        /\ recent[ip][0] = MAX_REQUESTS_PER_WINDOW
        /\ recent[ip][1] = MAX_REQUESTS_PER_WINDOW - 1
        /\ recent[ip][Horizon] = 1
        /\ AdmittedWithin(ip, RATE_LIMIT_WINDOW_MS - 1) = 2 * MAX_REQUESTS_PER_WINDOW - 1
        /\ AdmittedWithin(ip, Horizon) = 2 * MAX_REQUESTS_PER_WINDOW

\* C11 as stated: when MAX requests of one key were admitted up to a window's
\* end and MAX more just after it, the 2 * MAX admissions lie within a time
\* span shorter than RATE_LIMIT_WINDOW_MS.
C11_BurstShorterThanWindow ==
    \A ip \in IPs :
        (/\ recent[ip][0] = MAX_REQUESTS_PER_WINDOW
         /\ AdmittedWithin(ip, Horizon) = 2 * MAX_REQUESTS_PER_WINDOW)
        => AdmittedWithin(ip, RATE_LIMIT_WINDOW_MS - 1) = 2 * MAX_REQUESTS_PER_WINDOW

(***************************************************************************)
(* C12. Rolling-window limit as documented: in every interval of           *)
(* RATE_LIMIT_WINDOW_MS instants at most MAX_REQUESTS_PER_WINDOW requests  *)
(* of one ip are admitted.                                                 *)
(***************************************************************************)
C12_RollingWindowLimit ==
    \A ip \in IPs :
        AdmittedWithin(ip, RATE_LIMIT_WINDOW_MS - 1) <= MAX_REQUESTS_PER_WINDOW

(***************************************************************************)
(* route.ts: getTrie and GET                                               *)
(***************************************************************************)
\* trie.search(query, 100)
SearchLimit == 100

\* word.replace(/[,.]$/, "")
stripTrailing(word) ==
    IF word # <<>> /\ word[Len(word)] \in {",", "."}
    THEN SubSeq(word, 1, Len(word) - 1)
    ELSE word

\* Array.prototype.filter((word) => word.length > 0)
RECURSIVE filterNonEmpty(_)
filterNonEmpty(ws) ==
    IF ws = <<>> THEN <<>>
    ELSE (IF Len(Head(ws)) > 0 THEN <<Head(ws)>> ELSE <<>>) \o filterNonEmpty(Tail(ws))

\* The words getTrie makes of the lines of the file.
cleanWords(lines) ==
    LET trimmed == filterNonEmpty([i \in 1..Len(lines) |-> trim(lines[i])])
    IN  filterNonEmpty([i \in 1..Len(trimmed) |-> stripTrailing(trimmed[i])])

\* Mutant of getTrie: the new Trie is cached before the file is read.
getTrieCachesEmpty(cached, readOk) ==
    IF cached # <<>>
    THEN [threw |-> FALSE, built |-> FALSE, cachedTrie |-> cached]
    ELSE IF ~readOk
    THEN [threw |-> TRUE, built |-> FALSE, cachedTrie |-> <<NewNode>>]
    ELSE [threw |-> FALSE, built |-> TRUE,
          cachedTrie |-> <<buildFromArray(NewNode, cleanWords(FileLines))>>]

\* The files cleaned on their own: no line, one line, two lines, each of
\* letters, spaces, commas and periods.
LineChars == {"a", " ", ",", "."}
Lines == UNION {[1 .. n -> LineChars] : n \in 0 .. MaxLineLen}
Files == {<<>>} \cup {<<l>> : l \in Lines} \cup {<<l, m>> : l, m \in Lines}

\* getTrie reads a file of these lines: the words it gives buildFromArray.
CleanWords(lines) ==
    /\ cleaned' = <<[lines |-> lines, words |-> cleanWords(lines)]>>
    /\ UNCHANGED <<cachedTrie, pc, request, response, log>>
    /\ UNCHANGED <<trieVars, limiterVars, uiVars>>

\* One file is cleaned in a behaviour.
NextCleanWords ==
    /\ cleaned = <<>>
    /\ \E lines \in Files : CleanWords(lines)

SpecCleanWords == Init /\ [][NextCleanWords]_vars

\* getTrie() with `cached` the value of cachedTrie; readOk says whether
\* readFileSync returns the file (it throws otherwise).
\* built says whether the call ran buildFromArray.
getTrie(cached, readOk) ==
    IF cached # <<>>
    THEN [threw |-> FALSE, built |-> FALSE, cachedTrie |-> cached]
    ELSE IF ~readOk
    THEN [threw |-> TRUE, built |-> FALSE, cachedTrie |-> cached]
    ELSE [threw |-> FALSE, built |-> TRUE,
          cachedTrie |-> <<buildFromArray(NewNode, cleanWords(FileLines))>>]

\* A call noted in the trace of a GET.
Call(op, arg) == [op |-> op, arg |-> arg]

\* Mutant of Blank: a query of spaces counts as given.
BlankUntrimmed(q) == q = <<>> \/ q[1] = <<>>

\* !query || query.trim() === ""
Blank(q) == q = <<>> \/ q[1] = <<>> \/ trim(q[1]) = <<>>

\* Mutant of TooShort: one character is enough.
TooShortOffByOne(query) == Len(query) < 1

\* query.length < 2
TooShort(query) == Len(query) < 2

\* Mutant of successBody: count is the limit asked for.
successBodyCountLimit(query, matches) ==
    [query |-> query, count |-> SearchLimit, results |-> matches]

\* {query, count: matches.length, results: matches}
successBody(query, matches) ==
    [query |-> query, count |-> Len(matches), results |-> matches]

\* The body of GET after the rate limiter has answered `allowed`: the
\* response, the value of cachedTrie when it returns, and the calls made on
\* the index, in order.
handle(req, allowed, cached, readOk) ==
    IF ~allowed
    THEN [cachedTrie |-> cached, trace |-> <<>>,
          response |-> [status |-> 429, retryAfter |-> <<"60">>,
                        error |-> <<"Rate limit exceeded. Maximum 100 requests per minute.">>,
                        body |-> <<>>]]
    ELSE IF Blank(req.q)
    THEN [cachedTrie |-> cached, trace |-> <<>>,
          response |-> [status |-> 400, retryAfter |-> <<>>,
                        error |-> <<"Query parameter \"q\" is required">>,
                        body |-> <<>>]]
    ELSE IF TooShort(req.q[1])
    THEN [cachedTrie |-> cached, trace |-> <<>>,
          response |-> [status |-> 400, retryAfter |-> <<>>,
                        error |-> <<"Query must be at least 2 characters">>,
                        body |-> <<>>]]
    ELSE LET got == getTrie(cached, readOk)
             calls == <<Call("getTrie", <<>>)>> \o
                      (IF got.built THEN <<Call("buildFromArray", <<>>)>> ELSE <<>>)
         IN  IF got.threw
             THEN [cachedTrie |-> got.cachedTrie, trace |-> calls,
                   response |-> [status |-> 500, retryAfter |-> <<>>,
                                 error |-> <<"Failed to process request">>,
                                 body |-> <<>>]]
             ELSE LET matches == search(got.cachedTrie[1], req.q[1], SearchLimit)
                  IN  [cachedTrie |-> got.cachedTrie,
                       trace |-> Append(calls, Call("search", req.q[1])),
                       response |-> [status |-> 200, retryAfter |-> <<>>,
                                     error |-> <<>>,
                                     body |-> <<successBody(req.q[1], matches)>>]]

\* A request arrives: the server will call GET for it.
Receive(h, forwarded, q) ==
    /\ pc[h] = "idle"
    /\ ncalls + Cardinality({g \in Handlers : pc[g] = "GET"}) < MaxRequests
    /\ pc' = [pc EXCEPT ![h] = "GET"]
    /\ request' = [request EXCEPT ![h] = [forwarded |-> forwarded, q |-> q]]
    /\ UNCHANGED <<cachedTrie, response, log, cleaned>>
    /\ UNCHANGED <<trieVars, limiterVars, uiVars>>

\* Mutant of GET: the answer of the rate limiter is not looked at.
GETUngated(h, readOk) ==
    /\ pc[h] = "GET"
    /\ LET clientIP == getClientIP(request[h].forwarded)
           out == handle(request[h], TRUE, cachedTrie, readOk)
       IN  /\ Admit(clientIP)
           /\ cachedTrie' = out.cachedTrie
           /\ response' = <<[handler |-> h, request |-> request[h],
                             pending |-> {g \in Handlers \ {h} : pc[g] = "GET"},
                             trace |-> <<Call("checkRateLimit", clientIP)>> \o out.trace,
                             response |-> out.response]>>
    /\ pc' = [pc EXCEPT ![h] = "idle"]
    /\ request' = [request EXCEPT ![h] = NoRequest]
    /\ UNCHANGED <<now, recent, extracted, log, cleaned>>
    /\ UNCHANGED <<trieVars, uiVars>>

\* Mutant of GETBody: the query is validated first, and the rate limiter is
\* called for the requests that pass only.
GETBodyValidateFirst(h, readOk) ==
    /\ pc[h] = "GET"
    /\ LET clientIP == getClientIP(request[h].forwarded)
           invalid == Blank(request[h].q) \/ TooShort(request[h].q[1])
           allowed == checkRateLimit(requestCounts, clientIP, now).result
           out == handle(request[h], invalid \/ allowed, cachedTrie, readOk)
       IN  /\ IF invalid
              THEN UNCHANGED <<requestCounts, win, last, ncalls>>
              ELSE Admit(clientIP)
           /\ cachedTrie' = out.cachedTrie
           /\ response' = <<[handler |-> h, request |-> request[h],
                             pending |-> {g \in Handlers \ {h} : pc[g] = "GET"},
                             trace |-> (IF invalid THEN <<>>
                                        ELSE <<Call("checkRateLimit", clientIP)>>)
                                       \o out.trace,
                             response |-> out.response]>>
    /\ pc' = [pc EXCEPT ![h] = "idle"]
    /\ request' = [request EXCEPT ![h] = NoRequest]
    /\ UNCHANGED <<now, recent, extracted, cleaned>>
    /\ UNCHANGED <<trieVars, uiVars>>

\* GET(request) runs from its first statement to its return: it has no
\* await, so nothing else runs in between.  The trace is the calls it made
\* on the limiter and the index, in order.
GETBody(h, readOk) ==
    /\ pc[h] = "GET"
    /\ LET clientIP == getClientIP(request[h].forwarded)
           allowed == checkRateLimit(requestCounts, clientIP, now).result
           out == handle(request[h], allowed, cachedTrie, readOk)
       IN  /\ Admit(clientIP)
           /\ cachedTrie' = out.cachedTrie
           /\ response' = <<[handler |-> h, request |-> request[h],
                             pending |-> {g \in Handlers \ {h} : pc[g] = "GET"},
                             trace |-> <<Call("checkRateLimit", clientIP)>> \o out.trace,
                             response |-> out.response]>>
    /\ pc' = [pc EXCEPT ![h] = "idle"]
    /\ request' = [request EXCEPT ![h] = NoRequest]
    /\ UNCHANGED <<now, recent, extracted, cleaned>>
    /\ UNCHANGED <<trieVars, uiVars>>

\* The server calls GET for the request of handler h.
GET(h, readOk) ==
    /\ GETBody(h, readOk)
    /\ UNCHANGED log

\* The same call, with the status of its response noted in the log.
GETLogged(h, readOk) ==
    /\ GETBody(h, readOk)
    /\ log' = Append(log, response'[1].response.status)

\* Requests arrive and are handled in any order; between them the clock
\* stands still or a whole window passes (the instants at a window's end are
\* those of SpecRateLimit).
NextGET ==
    \/ \E h \in Handlers : \E forwarded \in Headers : \E q \in QueryParams :
           Receive(h, forwarded, q)
    \/ \E h \in Handlers : \E readOk \in BOOLEAN : GET(h, readOk)
    \/ Tick(RATE_LIMIT_WINDOW_MS + 1)

SpecGET == Init /\ [][NextGET]_vars

\* The requests of the log come from one client, one after the other.
LoggedHeader == <<<<"1", ",", " ", "2">>>>
LoggedHandler == "h1"

NextRequests ==
    \/ \E q \in QueryParams : Receive(LoggedHandler, LoggedHeader, q)
    \/ \E readOk \in BOOLEAN : GETLogged(LoggedHandler, readOk)
    \/ Tick(RATE_LIMIT_WINDOW_MS + 1)

SpecRequests == Init /\ [][NextRequests]_vars

(***************************************************************************)
(* C10. Atomic admit under concurrency: however the handlers of requests   *)
(* in flight are ordered, the requests admitted for a key in one window    *)
(* never exceed MAX_REQUESTS_PER_WINDOW, and the stored count is the       *)
(* number admitted: no increment is lost to another call.                  *)
(***************************************************************************)
C10_AtomicAdmit ==
    \A ip \in IPs :
        win[ip] # <<>> =>
            /\ win[ip][1].admitted <= MAX_REQUESTS_PER_WINDOW
            /\ requestCounts[ip] # <<>>
            /\ requestCounts[ip][1].count = win[ip][1].admitted
            /\ requestCounts[ip][1].resetTime = win[ip][1].windowEnd

\* The GET of one request took the last admission of its key's window while
\* the GET of another request of the same key was due, and still is.
C10_Witness ==
    /\ response # <<>>
    /\ response[1].response.status # 429
    /\ LET ip == getClientIP(response[1].request.forwarded)
       IN  /\ win[ip][1].admitted = MAX_REQUESTS_PER_WINDOW
           /\ last[1].ip = ip
           /\ last[1].before # <<>>
           /\ last[1].before[1].count = MAX_REQUESTS_PER_WINDOW - 1
           /\ \E g \in response[1].pending :
                  /\ pc[g] = "GET"
                  /\ getClientIP(request[g].forwarded) = ip

(***************************************************************************)
(* The Autocomplete component: handleInputChange, the debounce timer and   *)
(* fetchSuggestions.  Event handlers and timer callbacks run one at a      *)
(* time; fetchSuggestions gives way at its await, so a fetch that was      *)
(* issued returns in a later step, in any order with the others.  A timer  *)
(* runs its callback at the tick it is due: time does not pass a due       *)
(* timer, but an input change at that same tick may come first.            *)
(***************************************************************************)
\* The values the user changes the input to.
InputValues == { <<>>, <<"a">>, <<"A", "b">>, <<"b", "b">> }

\* Mutant of clearTimeout: the timer is left in place.
clearTimeoutNoop(tbl, id) == tbl

\* clearTimeout(id): the browser's timers after the call.
clearTimeout(tbl, id) == {t \in tbl : t.id # id}

\* setTimeout(() => fetchSuggestions(value), debounceMs): the browser's
\* timers after the call.
setTimeout(tbl, id, value) ==
    tbl \cup {[id |-> id, value |-> value, left |-> debounceMs]}

\* Mutant of BelowMinChars: an input of minChars characters is too short.
BelowMinCharsInclusive(query) == Len(query) <= minChars

\* query.length < minChars
BelowMinChars(query) == Len(query) < minChars

\* data.results of an ok response to /api/wordlist?q=query.
ApiResults(query) ==
    successBody(query, search(buildFromArray(NewNode, cleanWords(FileLines)),
                              query, SearchLimit)).results

\* The onChange handler of the input.
HandleInputChange(value) ==
    /\ nchanges < MaxChanges
    /\ value # inputValue
    /\ inputValue' = value
    /\ LET id == nchanges + 1
           cleared == IF debounceTimer # <<>>
                      THEN clearTimeout(timers, debounceTimer[1])
                      ELSE timers
       IN  /\ timers' = setTimeout(cleared, id, value)
           /\ debounceTimer' = <<id>>
    /\ burst' = Append(burst, value)
    /\ elapsed' = 0
    /\ nchanges' = nchanges + 1
    /\ UNCHANGED <<suggestions, isOpen, isLoading, selectedIndex, inflight, fired,
                   picked>>
    /\ UNCHANGED <<trieVars, limiterVars, routeVars>>

\* One tick of time passes in the browser.
Wait ==
    /\ \A t \in timers : t.left > 0
    /\ timers' = {[t EXCEPT !.left = @ - 1] : t \in timers}
    /\ elapsed' = IF elapsed < debounceMs THEN elapsed + 1 ELSE elapsed
    /\ UNCHANGED <<inputValue, suggestions, isOpen, isLoading, selectedIndex,
                   debounceTimer, inflight, fired, burst, nchanges, picked>>
    /\ UNCHANGED <<trieVars, limiterVars, routeVars>>

\* The callback of a due timer runs: fetchSuggestions(value) up to its
\* return or its await of fetch.
TimerFires(t) ==
    /\ t \in timers
    /\ t.left = 0
    /\ timers' = timers \ {t}
    /\ fired' = Append(fired, [id |-> t.id, query |-> t.value, elapsed |-> elapsed,
                               burst |-> burst, called |-> ~BelowMinChars(t.value)])
    /\ IF BelowMinChars(t.value)
       THEN /\ suggestions' = <<>>
            /\ isOpen' = FALSE
            /\ UNCHANGED <<isLoading, inflight>>
       ELSE /\ isLoading' = TRUE
            /\ inflight' = inflight \cup {[id |-> t.id, query |-> t.value]}
            /\ UNCHANGED <<suggestions, isOpen>>
    /\ burst' = <<>>
    /\ UNCHANGED <<inputValue, selectedIndex, debounceTimer, elapsed, nchanges, picked>>
    /\ UNCHANGED <<trieVars, limiterVars, routeVars>>

\* A fetch returns and fetchSuggestions runs on from its await to its end:
\* with an ok response, or with a response that is not ok or a rejection.
FetchReturns(f, ok) ==
    /\ f \in inflight
    /\ inflight' = inflight \ {f}
    /\ IF ok
       THEN /\ suggestions' = ApiResults(f.query)
            /\ isOpen' = (Len(ApiResults(f.query)) > 0)
            /\ selectedIndex' = -1
       ELSE /\ suggestions' = <<>>
            /\ isOpen' = FALSE
            /\ UNCHANGED selectedIndex
    /\ isLoading' = FALSE
    /\ UNCHANGED <<inputValue, debounceTimer, timers, fired, burst, elapsed, nchanges,
                   picked>>
    /\ UNCHANGED <<trieVars, limiterVars, routeVars>>

\* suggestions[index]: undefined when there is no such element.
undefined == <<"u", "n", "d", "e", "f", "i", "n", "e", "d">>
arrayAt(list, index) ==
    IF index + 1 \in 1 .. Len(list) THEN list[index + 1] ELSE undefined

\* handleSelectSuggestion(suggestion), called by `by` for the item at index.
handleSelectSuggestion(suggestion, by, index) ==
    /\ inputValue' = suggestion
    /\ suggestions' = <<>>
    /\ isOpen' = FALSE
    /\ selectedIndex' = -1
    /\ picked' = <<[by |-> by, index |-> index, suggestion |-> suggestion,
                    list |-> suggestions, after |-> Len(fired)]>>

\* Mutant of ArrowDown: the index does not stop at the last item.
ArrowDownUnbounded(prev, length) == prev + 1

\* ArrowDown: prev < suggestions.length - 1 ? prev + 1 : prev
ArrowDown(prev, length) == IF prev < length - 1 THEN prev + 1 ELSE prev

\* ArrowUp: prev > 0 ? prev - 1 : -1
ArrowUp(prev) == IF prev > 0 THEN prev - 1 ELSE -1

\* e.key of the key events handled.
KeyNames == {"ArrowDown", "ArrowUp", "Enter", "Escape"}

\* The onKeyDown handler of the input.  With the dropdown closed or the list
\* empty it returns at once.
HandleKeyDown(key) ==
    /\ isOpen
    /\ Len(suggestions) # 0
    /\ CASE key = "ArrowDown" ->
              /\ selectedIndex' = ArrowDown(selectedIndex, Len(suggestions))
              /\ UNCHANGED <<inputValue, suggestions, isOpen, picked>>
         [] key = "ArrowUp" ->
              /\ selectedIndex' = ArrowUp(selectedIndex)
              /\ UNCHANGED <<inputValue, suggestions, isOpen, picked>>
         [] key = "Enter" ->
              IF selectedIndex >= 0
              THEN handleSelectSuggestion(arrayAt(suggestions, selectedIndex),
                                          "Enter", selectedIndex)
              ELSE UNCHANGED <<inputValue, suggestions, isOpen, selectedIndex, picked>>
         [] key = "Escape" ->
              /\ isOpen' = FALSE
              /\ selectedIndex' = -1
              /\ UNCHANGED <<inputValue, suggestions, picked>>
    /\ UNCHANGED <<isLoading, debounceTimer, timers, inflight, fired, burst, elapsed,
                   nchanges>>
    /\ UNCHANGED <<trieVars, limiterVars, routeVars>>

\* The items of the dropdown are rendered while it is open and the list is
\* not empty.  onClick of the item at index:
ClickSuggestion(index) ==
    /\ isOpen
    /\ index \in 0 .. Len(suggestions) - 1
    /\ handleSelectSuggestion(suggestions[index + 1], "click", index)
    /\ UNCHANGED <<isLoading, debounceTimer, timers, inflight, fired, burst, elapsed,
                   nchanges>>
    /\ UNCHANGED <<trieVars, limiterVars, routeVars>>

\* onMouseEnter of the item at index.
MouseEnter(index) ==
    /\ isOpen
    /\ index \in 0 .. Len(suggestions) - 1
    /\ selectedIndex' = index
    /\ UNCHANGED <<inputValue, suggestions, isOpen, isLoading, debounceTimer, timers,
                   inflight, fired, burst, elapsed, nchanges, picked>>
    /\ UNCHANGED <<trieVars, limiterVars, routeVars>>

\* onFocus of the input.
Focus ==
    /\ isOpen' = (IF Len(suggestions) > 0 THEN TRUE ELSE isOpen)
    /\ UNCHANGED <<inputValue, suggestions, isLoading, selectedIndex, debounceTimer,
                   timers, inflight, fired, burst, elapsed, nchanges, picked>>
    /\ UNCHANGED <<trieVars, limiterVars, routeVars>>

\* handleClickOutside for a mousedown outside the input and the dropdown
\* (dropdownRef.current is set while the items are rendered).
ClickOutside ==
    /\ isOpen' = (IF isOpen /\ Len(suggestions) > 0 THEN FALSE ELSE isOpen)
    /\ UNCHANGED <<inputValue, suggestions, isLoading, selectedIndex, debounceTimer,
                   timers, inflight, fired, burst, elapsed, nchanges, picked>>
    /\ UNCHANGED <<trieVars, limiterVars, routeVars>>

NextAutocomplete ==
    \/ \E value \in InputValues : HandleInputChange(value)
    \/ Wait
    \/ \E t \in timers : TimerFires(t)
    \/ \E f \in inflight : \E ok \in BOOLEAN : FetchReturns(f, ok)
    \/ \E key \in KeyNames : HandleKeyDown(key)
    \/ \E index \in 0 .. Len(suggestions) - 1 : ClickSuggestion(index)
    \/ \E index \in 0 .. Len(suggestions) - 1 : MouseEnter(index)
    \/ Focus
    \/ ClickOutside

SpecAutocomplete == Init /\ [][NextAutocomplete]_vars

C27_MinChars ==
    [][/\ \A f \in inflight' : Len(f.query) >= minChars
       /\ Len(fired') = Len(fired) + 1 =>
              LET e == fired'[Len(fired')]
              IN  /\ e.called = (Len(e.query) >= minChars)
                  /\ ~e.called =>
                         /\ suggestions' = <<>>
                         /\ ~isOpen'
                         /\ inflight' = inflight
                  /\ e.called =>
                         \E f \in inflight' \ inflight : f.query = e.query]_vars

\* The callback ran for "a" and issued nothing; the input then reached two
\* characters and the fetch was issued.
C27_Witness ==
    /\ Len(fired) = 2
    /\ fired[1].query = <<"a">>
    /\ ~fired[1].called
    /\ fired[2].query = <<"A", "b">>
    /\ fired[2].called
    /\ \E f \in inflight : f.query = <<"A", "b">>

(***************************************************************************)
(* What the history of insert calls says the index holds.                  *)
(***************************************************************************)
Range(seq) == {seq[i] : i \in 1..Len(seq)}

IsPrefix(p, w) == Len(p) <= Len(w) /\ SubSeq(w, 1, Len(p)) = p

\* The non-empty words inserted so far, and their lowercase keys.
InsertedWords == Range(history) \ {<<>>}
InsertedKeys == {toLowerCase(w) : w \in InsertedWords}

\* The spelling of the first insert of a word with lowercase key k.
FirstForm(k) ==
    history[CHOOSE i \in 1..Len(history) :
                /\ history[i] # <<>>
                /\ toLowerCase(history[i]) = k
                /\ \A j \in 1..(i - 1) : toLowerCase(history[j]) # k]

\* The keys of the words that qualify for prefix p.
Qualifying(p) == {k \in InsertedKeys : IsPrefix(toLowerCase(p), k)}

\* The words below a node in depth-first pre-order, children in Map order,
\* with no limit: the traversal order the results are cut from.
RECURSIVE PreOrder(_), PreOrderChildren(_, _)
PreOrder(node) ==
    (IF node.isEndOfWord THEN node.word ELSE <<>>) \o PreOrderChildren(node.children, 1)

PreOrderChildren(children, i) ==
    IF i > Len(children) THEN <<>>
    ELSE PreOrder(children[i].node) \o PreOrderChildren(children, i + 1)

Traversal(p) ==
    LET reached == Descend(root, toLowerCase(p))
    IN  IF reached = <<>> THEN <<>> ELSE PreOrder(reached[1])

(***************************************************************************)
(* C1. First-insert-wins: whatever was inserted, a result of searchPrefix  *)
(* is the spelling of the FIRST insert of a word with its lowercase key.   *)
(***************************************************************************)
C1_FirstInsertWins ==
    \A p \in Queries : \A n \in 0..MaxResults :
        \A r \in Range(search(root, p, n)) :
            toLowerCase(r) \in InsertedKeys /\ r = FirstForm(toLowerCase(r))

(***************************************************************************)
(* C2. Completeness of searchPrefix: for a non-empty prefix p the words    *)
(* in traversal order are exactly the inserted words whose key starts with *)
(* lowercase(p), each once; a word that fewer than maxResults words        *)
(* precede is in the result; and with maxResults at least the number of    *)
(* qualifying words the result holds exactly all of them.                  *)
(***************************************************************************)
C2_Completeness ==
    \A p \in Queries \ {<<>>} : \A n \in 0..MaxResults :
        LET r == search(root, p, n)
            full == Traversal(p)
            q == Qualifying(p)
        IN  /\ Range(full) \subseteq InsertedWords
            /\ {toLowerCase(w) : w \in Range(full)} = q
            /\ Len(full) = Cardinality(q)
            /\ \A i \in 1..Len(full) : i - 1 < n => full[i] \in Range(r)
            /\ n >= Cardinality(q) =>
                  /\ {toLowerCase(w) : w \in Range(r)} = q
                  /\ Len(r) = Cardinality(q)

\* A prefix that is itself a word and has two more words below it, asked for
\* with a limit that cuts and with one that does not.
C2_Witness ==
    \E p \in Queries \ {<<>>} :
        /\ Cardinality(Qualifying(p)) = 3
        /\ toLowerCase(p) \in InsertedKeys
        /\ Len(search(root, p, 2)) = 2
        /\ Len(search(root, p, 3)) = 3

(***************************************************************************)
(* C3. Soundness of searchPrefix: every result was inserted, is the form   *)
(* stored at the node of its lowercase key, and its lowercase form starts  *)
(* with lowercase(p).                                                      *)
(***************************************************************************)
C3_Soundness ==
    \A p \in Queries : \A n \in 0..MaxResults :
        \A r \in Range(search(root, p, n)) :
            /\ r \in InsertedWords
            /\ IsPrefix(toLowerCase(p), toLowerCase(r))
            /\ LET reached == Descend(root, toLowerCase(r))
               IN  reached # <<>> /\ reached[1].word = <<r>>

\* A mixed-case word was inserted and a search in another casing returns it.
C3_Witness ==
    /\ <<"A", "b">> \in InsertedWords
    /\ search(root, <<"a", "B">>, MaxResults) = <<<<"A", "b">>>>

(***************************************************************************)
(* C4. Result cap: searchPrefix(p, n) returns at most n results, for       *)
(* every n >= 0, n = 0 included.                                           *)
(***************************************************************************)
C4_ResultCap ==
    \A p \in Queries : \A n \in 0..MaxResults : Len(search(root, p, n)) <= n

\* More words qualify than are asked for, and the limit is reached.
C4_Witness ==
    \E p \in Queries : \E n \in 0..MaxResults :
        /\ Cardinality(Qualifying(p)) > n
        /\ n > 0
        /\ Len(search(root, p, n)) = n
        /\ search(root, p, 0) = <<>>

(***************************************************************************)
(* C5. Membership after insert: every non-empty word inserted is contained *)
(* in every casing, in every later state.                                  *)
(***************************************************************************)
C5_MembershipAfterInsert ==
    \A w \in InsertedWords :
        \A c \in Queries : toLowerCase(c) = toLowerCase(w) => contains(root, c)

\* A word was inserted, other words after it, and another casing is asked.
C5_Witness ==
    /\ Len(history) = MaxInserts
    /\ history[1] = <<"A", "b">>
    /\ contains(root, <<"a", "B">>)
    /\ <<"a", "B">> \notin InsertedWords

(***************************************************************************)
(* C6. Exactness of contains: contains(x) is false when no inserted word   *)
(* has the lowercase form of x; so for a proper prefix that was not        *)
(* inserted, for the empty string and on an empty index.                   *)
(***************************************************************************)
C6_ContainsExact ==
    \A x \in Queries :
        contains(root, x) => x # <<>> /\ toLowerCase(x) \in InsertedKeys

\* The empty word and a longer word were inserted; the proper prefix of the
\* longer word has a node and is not contained.
C6_Witness ==
    /\ <<>> \in Range(history)
    /\ <<"a", "b">> \in InsertedWords
    /\ Descend(root, <<"a">>) # <<>>
    /\ ~contains(root, <<"a">>)
    /\ ~contains(root, <<>>)

\* The lowercase keys of a result, in result order.
Keys(r) == [i \in 1..Len(r) |-> toLowerCase(r[i])]

\* The number of words that qualify for p; none qualifies for the empty prefix.
QualifyingCount(p) == IF p = <<>> THEN 0 ELSE Cardinality(Qualifying(p))

Min(a, b) == IF a <= b THEN a ELSE b

(***************************************************************************)
(* C13. No duplicates, idempotent insert: no result of searchPrefix holds  *)
(* two entries with one lowercase key; an inserted word, however often and *)
(* in whatever casings it was inserted, has exactly one entry in every     *)
(* result that is not cut; and insert(w) after insert(w) leaves the index  *)
(* as it is, so every contains and searchPrefix query is answered as after *)
(* the single insert.                                                      *)
(***************************************************************************)
C13_NoDuplicates ==
    /\ \A p \in Queries : \A n \in 0..MaxResults :
           \A k \in {Keys(search(root, p, n))} :
               /\ \A i, j \in 1..Len(k) : i # j => k[i] # k[j]
               /\ (p # <<>> /\ n >= QualifyingCount(p)) =>
                      \A w \in Qualifying(p) :
                          Cardinality({i \in 1..Len(k) : k[i] = w}) = 1
    /\ \A w \in Words :
           \A once \in {insert(root, w)} : \A twice \in {insert(once, w)} :
               /\ twice = once
               /\ \A q \in Queries :
                      /\ contains(twice, q) = contains(once, q)
                      /\ \A n \in {1, MaxResults} :
                             search(twice, q, n) = search(once, q, n)

\* One word was inserted twice in one casing and once in another, and has one
\* entry.
C13_Witness ==
    /\ Len(history) = 3
    /\ history[1] = history[2]
    /\ history[3] # history[1]
    /\ toLowerCase(history[3]) = toLowerCase(history[1])
    /\ Len(search(root, history[1], MaxResults)) = 1
    /\ contains(root, history[1])

(***************************************************************************)
(* C14. Pre-order result order: in a result of searchPrefix a word whose   *)
(* lowercase key is a proper prefix of another result's key comes before   *)
(* it; the prefix itself, when it is a word, is first; and the results     *)
(* below one node (those sharing the first d characters of their keys) are *)
(* contiguous.                                                             *)
(***************************************************************************)
C14_PreOrder ==
    \A p \in Queries : \A n \in 0..MaxResults :
        \A k \in {Keys(search(root, p, n))} :
            /\ \A i, j \in 1..Len(k) :
                   (k[i] # k[j] /\ IsPrefix(k[i], k[j])) => i < j
            /\ (contains(root, p) /\ n >= 1) =>
                   (Len(k) >= 1 /\ k[1] = toLowerCase(p))
            /\ \A i, j, m \in 1..Len(k) :
                   (i < j /\ j < m) =>
                       \A d \in 1..Len(k[i]) :
                           IsPrefix(SubSeq(k[i], 1, d), k[m])
                               => IsPrefix(SubSeq(k[i], 1, d), k[j])

\* "aba" was inserted after "aa" and is returned before it, next to "ab".
C14_Witness ==
    /\ history = << <<"a", "b">>, <<"a", "a">>, <<"a", "b", "a">> >>
    /\ search(root, <<"a">>, MaxResults) =
           << <<"a", "b">>, <<"a", "b", "a">>, <<"a", "a">> >>

(***************************************************************************)
(* C15. Truncation is a prefix of the full result: searchPrefix(p, n) has  *)
(* min(n, number of qualifying words) elements and is the first n elements *)
(* of searchPrefix(p, N) for every N that is at least the number of        *)
(* qualifying words.                                                       *)
(***************************************************************************)
C15_TruncationIsPrefix ==
    \A p \in Queries : \A count \in {QualifyingCount(p)} :
        \A N \in (count .. MaxInserts + 1) \cup {SearchLimit} :
            \A full \in {search(root, p, N)} :
                /\ Len(full) = count
                /\ \A n \in 0..MaxResults : \A r \in {search(root, p, n)} :
                       /\ Len(r) = Min(n, count)
                       /\ r = SubSeq(full, 1, Min(n, count))

\* Three words qualify and two are asked for.
C15_Witness ==
    \E p \in Queries :
        /\ QualifyingCount(p) = 3
        /\ Len(search(root, p, 3)) = 3
        /\ search(root, p, 2) = SubSeq(search(root, p, 3), 1, 2)
        /\ search(root, p, 1) = SubSeq(search(root, p, SearchLimit), 1, 1)

(***************************************************************************)
(* C16. Empty prefix matches nothing: searchPrefix("", n) is the empty     *)
(* sequence for every n, whatever the index holds.                         *)
(***************************************************************************)
C16_EmptyPrefix ==
    \A n \in (0..MaxResults) \cup {SearchLimit} : search(root, <<>>, n) = <<>>

\* The index holds as many words as were inserted, and "" finds none of them.
C16_Witness ==
    /\ Cardinality(InsertedKeys) = MaxInserts
    /\ search(root, <<>>, MaxResults) = <<>>
    /\ search(root, <<"a">>, MaxResults) # <<>>

(***************************************************************************)
(* C17. No-match is a value: insert, contains and searchPrefix have a      *)
(* value for every string; a prefix that no inserted word starts with      *)
(* gives the empty sequence, a word that was not inserted gives false, and *)
(* insert("") leaves the index unchanged.                                  *)
(***************************************************************************)
C17_NoMatchIsValue ==
    /\ insert(root, <<>>) = root
    /\ \A p \in Queries :
           /\ contains(root, p) \in BOOLEAN
           /\ toLowerCase(p) \notin InsertedKeys => contains(root, p) = FALSE
           /\ \A n \in 0..MaxResults :
                  /\ search(root, p, n) \in Seq(InsertedWords)
                  /\ Qualifying(p) = {} => search(root, p, n) = <<>>

\* "" and "ab" were inserted: a prefix with a character the tree lacks and a
\* word longer than the stored path find nothing.
C17_Witness ==
    /\ <<>> \in Range(history)
    /\ InsertedKeys = { <<"a", "b">> }
    /\ search(root, <<"b">>, MaxResults) = <<>>
    /\ search(root, <<"a", "b", "a">>, MaxResults) = <<>>
    /\ ~contains(root, <<"a", "b", "a">>)
    /\ ~contains(root, <<"b", "b">>)

(***************************************************************************)
(* C18. Case-insensitive prefix: two prefixes with one lowercase form get  *)
(* the same result, for every n.                                           *)
(***************************************************************************)
C18_CaseInsensitivePrefix ==
    \A p1, p2 \in Queries :
        toLowerCase(p1) = toLowerCase(p2) =>
            \A n \in 0..MaxResults : search(root, p1, n) = search(root, p2, n)

\* "AB" and "ab" are asked for and both find the two words below "ab".
C18_Witness ==
    /\ Len(search(root, <<"a", "b">>, MaxResults)) = 2
    /\ search(root, <<"A", "B">>, MaxResults) = search(root, <<"a", "b">>, MaxResults)
    /\ search(root, <<"A", "b">>, 1) = search(root, <<"a", "B">>, 1)

\* The number of terminal nodes below and at a node.
RECURSIVE Terminals(_), TerminalsOf(_, _)
Terminals(node) ==
    (IF node.isEndOfWord THEN 1 ELSE 0) + TerminalsOf(node.children, 1)

TerminalsOf(children, i) ==
    IF i > Len(children) THEN 0
    ELSE Terminals(children[i].node) + TerminalsOf(children, i + 1)

(***************************************************************************)
(* C19. size() is the number of terminal nodes, which is the number of     *)
(* distinct lowercase words inserted so far.                               *)
(***************************************************************************)
C19_SizeCountsWords ==
    /\ Terminals(root) = Cardinality(InsertedKeys)
    /\ getSize(root) = Terminals(root)

\* The value a read gives on a tree.
ReadResult(t, a) ==
    CASE a.op = "search" -> search(t, a.arg, a.max)
      [] a.op = "contains" -> contains(t, a.arg)
      [] OTHER -> getSize(t)

IsFirstEntry(h, entry) ==
    /\ IsPrefix(entry, h)
    /\ "," \notin Range(entry)
    /\ Len(entry) = Len(h) \/ h[Len(entry) + 1] = ","

\* ip is entry without the spaces around it.
IsTrimmed(entry, ip) ==
    /\ ip = <<>> \/ (ip[1] # " " /\ ip[Len(ip)] # " ")
    /\ \E a, b \in 0..Len(entry) :
           /\ a + Len(ip) + b = Len(entry)
           /\ \A i \in 1..Len(entry) :
                  entry[i] = IF i <= a \/ i > a + Len(ip) THEN " " ELSE ip[i - a]

\* The key is the first comma-separated entry of the header value, trimmed.
IsFirstEntryTrimmed(h, ip) ==
    \E n \in 0..Len(h) : IsFirstEntry(h, SubSeq(h, 1, n)) /\ IsTrimmed(SubSeq(h, 1, n), ip)

Ops(trace) == {trace[i].op : i \in 1..Len(trace)}

\* The operations on the index.
IndexOps == {"getTrie", "buildFromArray", "search"}

(***************************************************************************)
(* C22. Admission gates search: the first call of every GET is             *)
(* checkRateLimit for the key of its request; when it returned false the   *)
(* response is 429 with Retry-After 60 and the GET made no call on the     *)
(* index (no getTrie, no build, no search); calls on the index are made    *)
(* for admitted requests only.                                             *)
(***************************************************************************)
C22_AdmissionGatesSearch ==
    response # <<>> =>
        LET r == response[1]
            t == r.trace
        IN  /\ last # <<>>
            /\ t # <<>>
            /\ t[1] = Call("checkRateLimit", getClientIP(r.request.forwarded))
            /\ last[1].ip = t[1].arg
            /\ \A i \in 2..Len(t) : t[i].op \in IndexOps
            /\ ~last[1].result =>
                   /\ r.response.status = 429
                   /\ r.response.retryAfter = <<"60">>
                   /\ r.response.body = <<>>
                   /\ Ops(t) \cap IndexOps = {}
            /\ Ops(t) \cap IndexOps # {} => last[1].result
            /\ r.response.status = 429 => ~last[1].result

\* A request with a valid query was rejected, and the index has never been
\* built.
C22_Witness ==
    /\ response # <<>>
    /\ response[1].request.q = << <<"A", "b">> >>
    /\ response[1].response.status = 429
    /\ response[1].response.retryAfter = <<"60">>
    /\ ~last[1].result
    /\ cachedTrie = <<>>

\* The cleaned words of the file that start with the query, whatever the case.
FileMatches(query) ==
    {w \in Range(cleanWords(FileLines)) : IsPrefix(toLowerCase(query), toLowerCase(w))}

(***************************************************************************)
(* C23. Success response shape: the body of every 200 response is          *)
(* {query, count, results} with query the q parameter as received, results *)
(* the output of search(query, 100) on the cached index, count the length  *)
(* of results and at most 100 results; when no word of the file starts     *)
(* with the query, count is 0 and results is empty.                        *)
(***************************************************************************)
C23_SuccessShape ==
    (response # <<>> /\ response[1].response.status = 200) =>
        LET q == response[1].request.q
            body == response[1].response.body
        IN  /\ q # <<>>
            /\ body # <<>>
            /\ cachedTrie # <<>>
            /\ DOMAIN body[1] = {"query", "count", "results"}
            /\ body[1].query = q[1]
            /\ body[1].results = search(cachedTrie[1], q[1], SearchLimit)
            /\ body[1].count = Len(body[1].results)
            /\ Len(body[1].results) <= SearchLimit
            /\ Range(body[1].results) = FileMatches(q[1])
            /\ FileMatches(q[1]) = {} => (body[1].count = 0 /\ body[1].results = <<>>)

\* "Ab" finds the two words of the file below "ab".
C23_Witness ==
    /\ response # <<>>
    /\ response[1].response.status = 200
    /\ response[1].response.body =
           <<[query |-> <<"A", "b">>, count |-> 2,
              results |-> << <<"a", "b">>, <<"A", "b", "a">> >>]>>

\* The q parameter is missing, empty or made of spaces only.
IsBlank(q) == q = <<>> \/ \A i \in 1..Len(q[1]) : q[1][i] = " "

C25_SingleBuildAtStartup ==
    /\ \A h \in Handlers : pc[h] = "GET" => cachedTrie # <<>>
    /\ response # <<>> => "buildFromArray" \notin Ops(response[1].trace)

\* The structure of the nodes at and below a node whose characters from the
\* root are path.
RECURSIVE WellFormed(_, _)
WellFormed(node, path) ==
    /\ node.isEndOfWord =>
           /\ node.word # <<>>
           /\ node.word[1] # <<>>
           /\ toLowerCase(node.word[1]) = path
    /\ ~node.isEndOfWord => node.word = <<>>
    /\ \A i \in 1..Len(node.children) :
           WellFormed(node.children[i].node, Append(path, node.children[i].key))

(***************************************************************************)
(* C28. Trie structural invariant: every terminal node has a non-empty     *)
(* stored word whose lowercase form is the path of characters from the     *)
(* root to the node, no other node has a stored word, and the root is not  *)
(* terminal.                                                               *)
(***************************************************************************)
C28_Structure ==
    /\ WellFormed(root, <<>>)
    /\ ~root.isEndOfWord

\* "" and "AB" were inserted: the node of "ab" stores "AB", the node of "a"
\* on the way stores nothing.
C28_Witness ==
    /\ <<>> \in Range(history)
    /\ Descend(root, <<"a", "b">>) # <<>>
    /\ Descend(root, <<"a", "b">>)[1].isEndOfWord
    /\ Descend(root, <<"a", "b">>)[1].word = << <<"A", "B">> >>
    /\ ~Descend(root, <<"a">>)[1].isEndOfWord
    /\ Descend(root, <<"a">>)[1].word = <<>>

(***************************************************************************)
(* C29. Rate-limiter records persist: a key that has a record keeps one in *)
(* every later state; requestCounts changes in checkRateLimit calls only,  *)
(* and then only at the key of the call, which has a record afterwards.    *)
(***************************************************************************)
C29_RecordsPersist ==
    [][/\ \A ip \in IPs : requestCounts[ip] # <<>> => requestCounts'[ip] # <<>>
       /\ requestCounts' # requestCounts =>
              /\ ncalls' = ncalls + 1
              /\ \A ip \in IPs \ {last'[1].ip} : requestCounts'[ip] = requestCounts[ip]
       /\ ncalls' = ncalls + 1 => requestCounts'[last'[1].ip] # <<>>]_vars

\* Both keys have a record, and one of them is of a window that ended more
\* than a window ago.
C29_Witness ==
    /\ \A ip \in IPs : requestCounts[ip] # <<>>
    /\ \E ip \in IPs : now > requestCounts[ip][1].resetTime + RATE_LIMIT_WINDOW_MS

\* The position in the history of the first insert that created the edge c
\* below the node of path.
FirstCreated(path, c) ==
    CHOOSE i \in 1..Len(history) :
        /\ IsPrefix(Append(path, c), toLowerCase(history[i]))
        /\ \A j \in 1..(i - 1) : ~IsPrefix(Append(path, c), toLowerCase(history[j]))

\* The children of every node at and below the node of path are in the order
\* in which their edges were created.
RECURSIVE InsertionOrdered(_, _)
InsertionOrdered(node, path) ==
    /\ \A i \in 1..Len(node.children) :
           \E k \in 1..Len(history) :
               IsPrefix(Append(path, node.children[i].key), toLowerCase(history[k]))
    /\ \A i, j \in 1..Len(node.children) :
           i < j => FirstCreated(path, node.children[i].key)
                        < FirstCreated(path, node.children[j].key)
    /\ \A i \in 1..Len(node.children) :
           InsertionOrdered(node.children[i].node, Append(path, node.children[i].key))

\* The history in reverse order.
Reverse(seq) == [i \in 1..Len(seq) |-> seq[Len(seq) + 1 - i]]

(***************************************************************************)
(* C30. Sibling order is insertion order: the children of every node are   *)
(* in the order in which insert first created their edges, and a result of *)
(* searchPrefix is the start of the pre-order walk over children in that   *)
(* order.  (That two insertion orders of one word set can give different   *)
(* results is the state C30_Witness.)                                      *)
(***************************************************************************)
C30_InsertionOrder ==
    /\ InsertionOrdered(root, <<>>)
    /\ \A p \in Queries \ {<<>>} : \A n \in 0..MaxResults :
           \A full \in {Traversal(p)} :
               search(root, p, n) = SubSeq(full, 1, Min(n, Len(full)))

\* "ab" was inserted before "aa": "b" comes before "a" below the node of "a",
\* and the index built from the same words in reverse order gives the two
\* words in the other order, and the other word when one is asked for.
C30_Witness ==
    /\ history = << <<"a", "b">>, <<"a", "a">> >>
    /\ search(root, <<"a">>, MaxResults) = << <<"a", "b">>, <<"a", "a">> >>
    /\ \A other \in {buildFromArray(NewNode, Reverse(history))} :
           /\ search(other, <<"a">>, MaxResults) = << <<"a", "a">>, <<"a", "b">> >>
           /\ search(other, <<"a">>, 1) # search(root, <<"a">>, 1)

(***************************************************************************)
(* C31. A rejected call changes nothing: when checkRateLimit returns false *)
(* the record of the key (count and resetTime) and every other record are  *)
(* as before.  Rejected calls never move the window's end, which stays the *)
(* one set when the window was opened, so the key is admitted again at the *)
(* first instant after it however often it was rejected.                   *)
(***************************************************************************)
C31_RejectedChangesNothing ==
    [][(ncalls' # ncalls /\ ~last'[1].result) =>
          LET ip == last'[1].ip
          IN  /\ requestCounts' = requestCounts
              /\ requestCounts'[ip] # <<>>
              /\ requestCounts'[ip][1].resetTime = win'[ip][1].windowEnd
              /\ \A t \in now .. MaxNow + 1 :
                     checkRateLimit(requestCounts', ip, t).result
                         = (t > win'[ip][1].windowEnd)]_vars

\* The key was rejected at least twice in its window, the last time at an
\* instant after the one that opened the window.
C31_Witness ==
    /\ last # <<>>
    /\ ~last[1].result
    /\ win[last[1].ip][1].calls >= MAX_REQUESTS_PER_WINDOW + 2
    /\ last[1].at + RATE_LIMIT_WINDOW_MS > win[last[1].ip][1].windowEnd
    /\ requestCounts[last[1].ip] = last[1].before

(***************************************************************************)
(* C32. Counter bounds: every stored record has                            *)
(* 1 <= count <= MAX_REQUESTS_PER_WINDOW, and its count is the number of   *)
(* calls admitted for its key since the record was last created, which is  *)
(* when its window was opened.                                             *)
(***************************************************************************)
C32_CounterBounds ==
    \A ip \in IPs :
        requestCounts[ip] # <<>> =>
            /\ requestCounts[ip][1].count >= 1
            /\ requestCounts[ip][1].count <= MAX_REQUESTS_PER_WINDOW
            /\ win[ip] # <<>>
            /\ requestCounts[ip][1].count = win[ip][1].admitted

\* A record that was at the limit, with calls rejected, has been created anew
\* and counts again from 1, while the record of another key counts 2.
C32_Witness ==
    /\ last # <<>>
    /\ last[1].before # <<>>
    /\ last[1].before[1].count = MAX_REQUESTS_PER_WINDOW
    /\ last[1].winBefore[1].calls > MAX_REQUESTS_PER_WINDOW
    /\ requestCounts[last[1].ip][1].count = 1
    /\ \E b \in IPs \ {last[1].ip} :
           /\ requestCounts[b] # <<>>
           /\ requestCounts[b][1].count = 2

(***************************************************************************)
(* C33. Burst upper bound: the clock never goes back, and in every time    *)
(* interval of length RATE_LIMIT_WINDOW_MS (the instants now - WINDOW ..   *)
(* now) at most 2 * MAX_REQUESTS_PER_WINDOW calls of one key are admitted. *)
(***************************************************************************)
C33_BurstUpperBound ==
    \A ip \in IPs :
        AdmittedWithin(ip, RATE_LIMIT_WINDOW_MS) <= 2 * MAX_REQUESTS_PER_WINDOW

\* An interval of that length that overlaps two windows of the key: all
\* admissions of the first window but the one that opened it, and all of the
\* second.
C33_Witness ==
    \E ip \in IPs :
        /\ recent[ip][0] = MAX_REQUESTS_PER_WINDOW
        /\ recent[ip][0] = requestCounts[ip][1].count
        /\ requestCounts[ip][1].resetTime = now + RATE_LIMIT_WINDOW_MS
        /\ AdmittedWithin(ip, RATE_LIMIT_WINDOW_MS) = 2 * MAX_REQUESTS_PER_WINDOW - 1

\* The step is a call of GET that returns.
GETReturns == \E h \in Handlers : pc[h] = "GET" /\ pc'[h] = "idle"

\* The q parameter passes the validation of GET.
IsValidQuery(q) == q # <<>> /\ ~IsBlank(q) /\ Len(q[1]) >= 2

(***************************************************************************)
(* C34. Quota is charged before validation: the first call GET makes is    *)
(* checkRateLimit, so every request counts in its client's window whatever *)
(* its query.  A request is answered 429 exactly when more than            *)
(* MAX_REQUESTS_PER_WINDOW requests of the client, valid or not, came in   *)
(* the window, itself included; every request answered 400, 500 or 200 has *)
(* added one to the stored count.  So after MAX_REQUESTS_PER_WINDOW        *)
(* invalid requests in a window a valid request in that window gets 429.   *)
(***************************************************************************)
C34_ChargedBeforeValidation ==
    [][GETReturns =>
          LET r == response'[1]
              ip == getClientIP(r.request.forwarded)
              before == requestCounts[ip]
              opened == before = <<>> \/ now > before[1].resetTime
          IN  /\ r.trace # <<>>
              /\ r.trace[1] = Call("checkRateLimit", ip)
              /\ ncalls' = ncalls + 1
              /\ win'[ip] # <<>>
              /\ win'[ip][1].calls = (IF opened THEN 1 ELSE win[ip][1].calls + 1)
              /\ (r.response.status = 429)
                     = (win'[ip][1].calls > MAX_REQUESTS_PER_WINDOW)
              /\ r.response.status \in {200, 400, 500} =>
                     requestCounts'[ip][1].count
                         = (IF opened THEN 1 ELSE before[1].count + 1)
              /\ (~opened /\ before[1].count = MAX_REQUESTS_PER_WINDOW) =>
                     r.response.status = 429]_vars

\* MAX_REQUESTS_PER_WINDOW requests with a missing, blank or too short query
\* were answered 400 and the valid request after them, in the same window, 429.
C34_Witness ==
    /\ Len(log) = MAX_REQUESTS_PER_WINDOW + 1
    /\ \A i \in 1 .. MAX_REQUESTS_PER_WINDOW : log[i] = 400
    /\ log[MAX_REQUESTS_PER_WINDOW + 1] = 429
    /\ response # <<>>
    /\ response[1].response.status = 429
    /\ IsValidQuery(response[1].request.q)
    /\ win[getClientIP(LoggedHeader)][1].calls = MAX_REQUESTS_PER_WINDOW + 1
    /\ win[getClientIP(LoggedHeader)][1].admitted = MAX_REQUESTS_PER_WINDOW

(***************************************************************************)
(* C35. Load failure is contained: when readFileSync throws, the request   *)
(* is answered 500 'Failed to process request' (GET catches the exception) *)
(* and cachedTrie stays null; every later admitted valid request calls     *)
(* getTrie, which reads the file again while nothing is cached.  The value *)
(* cached is never anything but the index of the whole file, and every 200 *)
(* answers with a search of that index.                                    *)
(***************************************************************************)
C35_LoadFailureContained ==
    [][GETReturns =>
          \A full \in {buildFromArray(NewNode, cleanWords(FileLines))} :
              LET r == response'[1]
                  reached == "getTrie" \in Ops(r.trace)
              IN  /\ cachedTrie' \in {<<>>, <<full>>}
                  /\ cachedTrie # <<>> => cachedTrie' = cachedTrie
                  /\ r.response.status = 500 =>
                         /\ r.response.error = <<"Failed to process request">>
                         /\ r.response.body = <<>>
                         /\ reached
                         /\ "search" \notin Ops(r.trace)
                         /\ cachedTrie = <<>>
                         /\ cachedTrie' = <<>>
                  /\ (r.response.status # 429 /\ IsValidQuery(r.request.q)) => reached
                  /\ (reached /\ cachedTrie = <<>>) =>
                         \/ r.response.status = 500
                         \/ /\ r.response.status = 200
                            /\ "buildFromArray" \in Ops(r.trace)
                  /\ r.response.status = 200 =>
                         /\ cachedTrie' = <<full>>
                         /\ r.response.body[1].results
                                = search(full, r.request.q[1], SearchLimit)]_vars

\* The read failed for one request, answered 500, and succeeded for the next
\* valid one, which built the index and found words in it.
C35_Witness ==
    /\ Len(log) >= 2
    /\ log[Len(log) - 1] = 500
    /\ log[Len(log)] = 200
    /\ response # <<>>
    /\ "buildFromArray" \in Ops(response[1].trace)
    /\ response[1].response.body[1].results # <<>>
    /\ cachedTrie # <<>>

\* A line as C36 cleans it: trimmed, at most one trailing comma or period
\* removed, discarded when empty before or after the removal.
CleanLine(line) ==
    LET t == trim(line)
        u == IF t # <<>> /\ t[Len(t)] \in {",", "."} THEN SubSeq(t, 1, Len(t) - 1) ELSE t
    IN  IF t = <<>> \/ u = <<>> THEN <<>> ELSE <<u>>

RECURSIVE CleanLines(_)
CleanLines(lines) ==
    IF lines = <<>> THEN <<>> ELSE CleanLine(Head(lines)) \o CleanLines(Tail(lines))

(***************************************************************************)
(* C36. Dictionary cleaning: each line is trimmed, at most one trailing    *)
(* comma or period is removed, lines empty before or after the removal are *)
(* discarded; no word given to buildFromArray is empty or has leading or   *)
(* trailing whitespace, and commas and periods inside a word are kept.     *)
(***************************************************************************)
C36_DictionaryCleaning ==
    cleaned # <<>> =>
        LET words == cleaned[1].words
        IN  /\ words = CleanLines(cleaned[1].lines)
            /\ \A i \in 1 .. Len(words) :
                   /\ words[i] # <<>>
                   /\ words[i][1] # " "
                   /\ words[i][Len(words[i])] # " "

(***************************************************************************)
(* C37. Selection index stays valid: whenever the suggestion list is not   *)
(* empty, selectedIndex is in -1 .. suggestions.length - 1, and a new      *)
(* non-empty list comes with selectedIndex = -1.  Every call of            *)
(* handleSelectSuggestion, by Enter or by a click, was for an index        *)
(* 0 .. length - 1 of the list shown and got the element at that index:    *)
(* Enter at selectedIndex = -1 selects nothing.                            *)
(***************************************************************************)
C37_SelectionIndexValid ==
    [][/\ suggestions' # <<>> =>
              /\ selectedIndex' >= -1
              /\ selectedIndex' <= Len(suggestions') - 1
       /\ (suggestions' # suggestions /\ suggestions' # <<>>) => selectedIndex' = -1
       /\ picked' # <<>> =>
              /\ picked'[1].index >= 0
              /\ picked'[1].index <= Len(picked'[1].list) - 1
              /\ picked'[1].suggestion = picked'[1].list[picked'[1].index + 1]
              /\ picked'[1].suggestion # undefined
       /\ (picked' # picked /\ picked'[1].by = "Enter") =>
              /\ picked'[1].index = selectedIndex
              /\ picked'[1].list = suggestions
              /\ isOpen]_vars

\* Enter selected the last item of a list of two; a later list of two is
\* shown with its last item highlighted, where ArrowDown stays.
C37_Witness ==
    /\ picked # <<>>
    /\ picked[1].by = "Enter"
    /\ picked[1].index = Len(picked[1].list) - 1
    /\ picked[1].index >= 1
    /\ inputValue # picked[1].suggestion
    /\ isOpen
    /\ Len(suggestions) >= 2
    /\ selectedIndex = Len(suggestions) - 1
    /\ ArrowDown(selectedIndex, Len(suggestions)) = selectedIndex

\* The runs of the debounce callback that issued a fetch.
Issued == {i \in 1 .. Len(fired) : fired[i].called}

\* The query of the fetch issued last.
LatestIssuedQuery == fired[CHOOSE i \in Issued : \A j \in Issued : j <= i].query

\* A fetch issued after the fetch f has returned already.
AnsweredAfter(f) ==
    \E i \in Issued :
        /\ fired[i].id > f.id
        /\ \A g \in inflight : g.id # fired[i].id

\* handleSelectSuggestion was called after the fetch f was issued.
SelectedAfter(f) ==
    /\ picked # <<>>
    /\ \E i \in Issued : fired[i].id = f.id /\ i <= picked[1].after

(***************************************************************************)
(* C38. Suggestions match the latest query: the response to a query never  *)
(* replaces the suggestions once the response to a later query has come;   *)
(* when the last fetch in flight has returned, the list shown is the one   *)
(* returned for the query issued last (or empty); a response that arrives  *)
(* after the user selected a suggestion leaves the dropdown closed.        *)
(***************************************************************************)
C38_LatestQueryWins ==
    [][\A f \in inflight \ inflight' :
           /\ AnsweredAfter(f) => suggestions' = suggestions
           /\ inflight' = {} => suggestions' \in {<<>>, ApiResults(LatestIssuedQuery)}
           /\ SelectedAfter(f) => ~isOpen']_vars

====
